---- MODULE Spec2Model ----
(***************************************************************************)
(* Model of app.py (Nearby Postcodes Finder, AU): the input normalizer     *)
(* parse_postcodes, the neighbour finder find_neighbours_pgeocode and the   *)
(* aggregate flattening flatten_neighbour_list.                             *)
(*                                                                         *)
(* A Python str is a sequence of one-character strings; the character      *)
(* U+00B2 (superscript two), for which str.isdigit() is True although it   *)
(* is no decimal digit, is written "sup2".                                  *)
(***************************************************************************)
EXTENDS Integers, Sequences, FiniteSets, TLC

\* ------------------------------------------------------------------ bounds
MaxLen == 5
MaxRows == 3
MaxInputs == 2
MaxPos == 1
MaxRadius == 1

\* -------------------------------------------------------------- characters
AsciiDigits == {"0", "1", "2", "3", "4", "5", "6", "7", "8", "9"}
OtherDigits == {"sup2"}
Whitespace == {" ", "\n", "\t", "\r"}

\* str.isdigit(): decimal digits and the other Unicode digit characters
isdigit(ch) == ch \in AsciiDigits \cup OtherDigits

\* code point order of the characters that occur in codes and separators
Ord(ch) ==
  CASE ch = "\t" -> 9 [] ch = "\n" -> 10 [] ch = "\r" -> 13 [] ch = " " -> 32
    [] ch = "," -> 44
    [] ch = "0" -> 48 [] ch = "1" -> 49 [] ch = "2" -> 50 [] ch = "3" -> 51
    [] ch = "4" -> 52 [] ch = "5" -> 53 [] ch = "6" -> 54 [] ch = "7" -> 55
    [] ch = "8" -> 56 [] ch = "9" -> 57
    [] ch = ";" -> 59 [] ch = "a" -> 97 [] ch = "sup2" -> 178

\* ------------------------------------------------------- string primitives
\* str.replace(old, new) for one-character old and new
replace(s, old, new) == [i \in 1..Len(s) |-> IF s[i] = old THEN new ELSE s[i]]

FirstIndex(s, sep) ==
  IF \E i \in 1..Len(s) : s[i] = sep
  THEN CHOOSE i \in 1..Len(s) : s[i] = sep /\ \A j \in 1..(i-1) : s[j] # sep
  ELSE 0

\* str.split(sep) for a one-character sep: "" splits to [""]
RECURSIVE split(_, _)
split(s, sep) ==
  LET i == FirstIndex(s, sep) IN
    IF i = 0 THEN << s >>
    ELSE << SubSeq(s, 1, i-1) >> \o split(SubSeq(s, i+1, Len(s)), sep)

\* str.strip(): drop leading and trailing whitespace
RECURSIVE lstrip(_)
lstrip(s) == IF s # << >> /\ Head(s) \in Whitespace THEN lstrip(Tail(s)) ELSE s

RECURSIVE rstrip(_)
rstrip(s) ==
  IF s # << >> /\ s[Len(s)] \in Whitespace THEN rstrip(SubSeq(s, 1, Len(s)-1)) ELSE s

strip(s) == rstrip(lstrip(s))

Zeros(n) == [i \in 1..n |-> "0"]

zfill_short(s, width) == IF Len(s) >= width - 1 THEN s ELSE Zeros(width - 1 - Len(s)) \o s

\* str.zfill(width) of a string without sign: left-pad with "0", never cut
zfill(s, width) == IF Len(s) >= width THEN s ELSE Zeros(width - Len(s)) \o s

\* sep.join(parts)
RECURSIVE join(_, _)
join(parts, sep) ==
  IF parts = << >> THEN << >>
  ELSE IF Len(parts) = 1 THEN parts[1]
  ELSE parts[1] \o sep \o join(Tail(parts), sep)

\* --------------------------------------------------------- parse_postcodes
RECURSIVE parse_tokens(_)
parse_tokens(tokens) ==
  IF tokens = << >> THEN << >>
  ELSE LET s == SelectSeq(strip(Head(tokens)), isdigit) IN
         (IF s # << >> THEN << zfill(s, 4) >> ELSE << >>) \o parse_tokens(Tail(tokens))

tokens_of_no_newline(text) == split(text, ",")

tokens_of(text) == split(replace(text, "\n", ","), ",")

parse_postcodes_deduplicating(text) ==
  LET l == IF text = << >> THEN << >> ELSE parse_tokens(tokens_of(text))
      F[i \in 0..Len(l)] ==
        IF i = 0 THEN << >>
        ELSE IF \E j \in 1..(i-1) : l[j] = l[i] THEN F[i-1] ELSE Append(F[i-1], l[i])
  IN F[Len(l)]

parse_postcodes(text) ==
  IF text = << >> THEN << >> ELSE parse_tokens(tokens_of(text))

\* ------------------------------------------------ reference data (pgeocode)
C2010 == << "2", "0", "1", "0" >>
C2011 == << "2", "0", "1", "1" >>
C9999 == << "9", "9", "9", "9" >>
Codes == {C2010, C2011, C9999}

\* the codes a caller asks for
InputCodes == {C2010, C9999}

\* a missing coordinate / an undefined distance (numpy nan)
NaN == -1
Coords == 0..MaxPos

BoundedSeq(S, n) == UNION {[1..m -> S] : m \in 0..n}

VARIABLES
  text,          \* the text area content
  inputs,        \* the codes handed to find_neighbours_pgeocode
  radius_km,     \* the radius
  all_codes,     \* df["postal_code"].tolist(), one entry per place row
  centroid,      \* the distance engine's coordinate per postal code (NaN: none)
  unique_inputs, \* find_neighbours_pgeocode: first-occurrence order of inputs
  idx,           \* position of the first loop in unique_inputs
  results_map,   \* find_neighbours_pgeocode: code -> sorted neighbour list
  missing,       \* find_neighbours_pgeocode: codes not in the table, in order
  results_df,    \* the returned data frame
  missing_out,   \* the returned not-found list
  items,         \* flatten_neighbour_list: the flattened list
  csv_str,       \* flatten_neighbour_list: the rendered string
  pc

vars == << text, inputs, radius_km, all_codes, centroid, unique_inputs, idx,
           results_map, missing, results_df, missing_out, items, csv_str, pc >>

\* --------------------------------------------------------- python helpers
set(l) == {l[i] : i \in 1..Len(l)}

\* str < str: first differing character decides, else the shorter is less
LexLess(a, b) ==
  \/ \E i \in 1..Len(a) :
        /\ i <= Len(b)
        /\ \A j \in 1..(i-1) : a[j] = b[j]
        /\ Ord(a[i]) < Ord(b[i])
  \/ /\ Len(a) < Len(b)
     /\ \A j \in 1..Len(a) : a[j] = b[j]

\* sorted(S) of a set of strings
RECURSIVE sorted(_)
sorted(S) ==
  IF S = {} THEN << >>
  ELSE LET m == CHOOSE x \in S : \A y \in S \ {x} : LexLess(x, y)
       IN << m >> \o sorted(S \ {m})

\* sorted(l) of a list: stable insertion of each element, duplicates kept
RECURSIVE sorted_list(_)
sorted_list(l) ==
  IF l = << >> THEN << >>
  ELSE LET rest == sorted_list(Tail(l))
           k == Cardinality({i \in 1..Len(rest) : LexLess(rest[i], Head(l))})
       IN SubSeq(rest, 1, k) \o << Head(l) >> \o SubSeq(rest, k+1, Len(rest))

\* list(dict.fromkeys(l)): first occurrences, in order
dict_fromkeys(l) ==
  LET keep(i) == \A j \in 1..(i-1) : l[j] # l[i]
      F[i \in 0..Len(l)] ==
        IF i = 0 THEN << >> ELSE IF keep(i) THEN Append(F[i-1], l[i]) ELSE F[i-1]
  IN F[Len(l)]

\* ------------------------------------------------------- load_postcodes_au
\* rows of the bundled data set with a coordinate, codes stripped and padded
load_postcodes_au(raw, coord) ==
  LET kept == SelectSeq(raw, LAMBDA c : coord[c] # NaN)
  IN [i \in 1..Len(kept) |-> zfill(strip(kept[i]), 4)]

\* ------------------------------------------------ find_neighbours_pgeocode
\* geodist.query_postal_code(p, c): km between the centroids, nan if unknown
distance(coord, p, c) ==
  IF p \notin DOMAIN coord \/ c \notin DOMAIN coord THEN NaN
  ELSE IF coord[p] = NaN \/ coord[c] = NaN THEN NaN
  ELSE IF coord[p] >= coord[c] THEN coord[p] - coord[c] ELSE coord[c] - coord[p]

query_postal_code(coord, p, codes) == [i \in 1..Len(codes) |-> distance(coord, p, codes[i])]

within_strict(d, radius) == d # NaN /\ d < radius

within_equal(d, radius) == d # NaN /\ d = radius

\* (not np.isnan(d)) and d <= radius_km
within(d, radius) == d # NaN /\ d <= radius

\* [c for c, d in zip(all_codes, dists) if ...]
neighbours_in(codes, dists, radius) ==
  LET F[i \in 0..Len(codes)] ==
        IF i = 0 THEN << >>
        ELSE IF within(dists[i], radius) THEN Append(F[i-1], codes[i]) ELSE F[i-1]
  IN F[Len(codes)]

dedupe_sort_keep_duplicates(neighbours) == sorted_list(neighbours)

\* sorted(set(neighbours))
dedupe_sort(neighbours) == sorted(set(neighbours))

\* lines 48-50 for one input code of the table
neighbours_of(coord, codes, p, radius) ==
  dedupe_sort(neighbours_in(codes, query_postal_code(coord, p, codes), radius))

\* results_map[p] = v
put(map, p, v) == [x \in DOMAIN map \cup {p} |-> IF x = p THEN v ELSE map[x]]

\* results_map.get(p, [])
get(map, p) == IF p \in DOMAIN map THEN map[p] ELSE << >>

EmptyMap == [x \in {} |-> << >>]

\* pd.DataFrame(rows): a frame built from no rows has no columns
DataFrame(rows) ==
  [columns |-> IF rows = << >> THEN {} ELSE {"input_postcode", "neighbours"},
   rows |-> rows]

make_rows_unique(ins, map) ==
  LET u == dict_fromkeys(ins) IN
  [i \in 1..Len(u) |-> [input_postcode |-> u[i], neighbours |-> join(get(map, u[i]), << ";" >>)]]

\* the second loop: one row per element of inputs
make_rows(ins, map) ==
  [i \in 1..Len(ins) |->
     [input_postcode |-> ins[i], neighbours |-> join(get(map, ins[i]), << ";" >>)]]

\* --------------------------------------------------- flatten_neighbour_list
\* the first loop: the non-empty pieces of every non-empty neighbours cell
RECURSIVE collect(_)
collect(cells) ==
  IF cells = << >> THEN << >>
  ELSE (IF Head(cells) # << >>
        THEN SelectSeq(split(Head(cells), ";"), LAMBDA x : x # << >>)
        ELSE << >>) \o collect(Tail(cells))

Orderings(S) == {l \in [1..Cardinality(S) -> S] : set(l) = S}

render_no_space(its) == join(its, << "," >>)

\* ", ".join(items)
render(its) == join(its, << ",", " " >>)

\* ------------------------------------------------------------ the program
Alphabet == {"0", "7", ",", " ", "\n", "a", "sup2"}

\* "2010, 05159\n4814"
ExampleText ==
  << "2", "0", "1", "0", ",", " ", "0", "5", "1", "5", "9", "\n", "4", "8", "1", "4" >>

NoFrame == [columns |-> {}, rows |-> << >>]

\* the form before the button is pressed: any text in the text area
InitParse ==
  /\ text \in BoundedSeq(Alphabet, MaxLen) \cup {ExampleText}
  /\ inputs = << >>
  /\ radius_km = 0
  /\ all_codes = << >>
  /\ centroid = EmptyMap
  /\ unique_inputs = << >>
  /\ idx = 1
  /\ results_map = EmptyMap
  /\ missing = << >>
  /\ results_df = NoFrame
  /\ missing_out = << >>
  /\ items = << >>
  /\ csv_str = << >>
  /\ pc = "form"

\* lines 99-103: inputs = parse_postcodes(text); an empty result stops the run
RunParse ==
  /\ pc = "form"
  /\ inputs' = parse_postcodes(text)
  /\ pc' = IF inputs' = << >> THEN "stopped" ELSE "parsed"
  /\ UNCHANGED << text, radius_km, all_codes, centroid, unique_inputs, idx,
                  results_map, missing, results_df, missing_out, items, csv_str >>

NextParse == RunParse

SpecParse == InitParse /\ [][NextParse]_vars

\* a call of the core: the table as loaded from the rows of the bundled data
\* set, the distance engine indexed by the codes of the same rows, any inputs
\* and any radius
InitFind ==
  /\ text = << >>
  /\ inputs \in BoundedSeq(InputCodes, MaxInputs)
  /\ radius_km \in 0..MaxRadius
  /\ \E raw \in BoundedSeq(Codes, MaxRows) :
       /\ centroid \in [set(raw) -> Coords \cup {NaN}]
       /\ all_codes = load_postcodes_au(raw, centroid)
  /\ unique_inputs = << >>
  /\ idx = 1
  /\ results_map = EmptyMap
  /\ missing = << >>
  /\ results_df = NoFrame
  /\ missing_out = << >>
  /\ items = << >>
  /\ csv_str = << >>
  /\ pc = "start"

\* lines 35-42
FindBegin ==
  /\ pc = "start"
  /\ results_map' = EmptyMap
  /\ missing' = << >>
  /\ unique_inputs' = dict_fromkeys(inputs)
  /\ idx' = 1
  /\ pc' = "loop"
  /\ UNCHANGED << text, inputs, radius_km, all_codes, centroid, results_df,
                  missing_out, items, csv_str >>

FindLoopMissing_not_reported ==
  /\ pc = "loop"
  /\ idx <= Len(unique_inputs)
  /\ unique_inputs[idx] \notin set(all_codes)
  /\ results_map' = put(results_map, unique_inputs[idx], << >>)
  /\ idx' = idx + 1
  /\ UNCHANGED << text, inputs, radius_km, all_codes, centroid, unique_inputs, missing,
                  results_df, missing_out, items, csv_str, pc >>

\* lines 43-47: a code that is not in the table
FindLoopMissing ==
  /\ pc = "loop"
  /\ idx <= Len(unique_inputs)
  /\ unique_inputs[idx] \notin set(all_codes)
  /\ results_map' = put(results_map, unique_inputs[idx], << >>)
  /\ missing' = Append(missing, unique_inputs[idx])
  /\ idx' = idx + 1
  /\ UNCHANGED << text, inputs, radius_km, all_codes, centroid, unique_inputs,
                  results_df, missing_out, items, csv_str, pc >>

\* lines 43, 48-50: a code of the table
FindLoopQuery ==
  /\ pc = "loop"
  /\ idx <= Len(unique_inputs)
  /\ unique_inputs[idx] \in set(all_codes)
  /\ results_map' = put(results_map, unique_inputs[idx],
                        neighbours_of(centroid, all_codes, unique_inputs[idx], radius_km))
  /\ idx' = idx + 1
  /\ UNCHANGED << text, inputs, radius_km, all_codes, centroid, unique_inputs, missing,
                  results_df, missing_out, items, csv_str, pc >>

\* lines 52-56
FindReturn ==
  /\ pc = "loop"
  /\ idx > Len(unique_inputs)
  /\ results_df' = DataFrame(make_rows(inputs, results_map))
  /\ missing_out' = sorted(set(missing))
  /\ pc' = "found"
  /\ UNCHANGED << text, inputs, radius_km, all_codes, centroid, unique_inputs, idx,
                  results_map, missing, items, csv_str >>

\* lines 58-72, called with dedupe=True, sort=True (line 108);
\* results_df["neighbours"] raises KeyError when the frame has no such column;
\* list(set(items)) may come in any order
Flatten ==
  /\ pc = "found"
  /\ IF "neighbours" \notin results_df.columns
     THEN /\ pc' = "KeyError"
          /\ UNCHANGED << items, csv_str >>
     ELSE LET cells == [i \in 1..Len(results_df.rows) |-> results_df.rows[i].neighbours]
          IN \E deduped \in Orderings(set(collect(cells))) :
               /\ items' = sorted_list(deduped)
               /\ csv_str' = render(items')
               /\ pc' = "done"
  /\ UNCHANGED << text, inputs, radius_km, all_codes, centroid, unique_inputs, idx,
                  results_map, missing, results_df, missing_out >>

NextFind == FindBegin \/ FindLoopMissing \/ FindLoopQuery \/ FindReturn \/ Flatten

SpecFind == InitFind /\ [][NextFind]_vars

\* ------------------------------------------------- properties of the parser
Parsed == pc \in {"parsed", "stopped"}

Max(a, b) == IF a >= b THEN a ELSE b

\* positions i..j of t lie in one comma- or newline-separated token
SameToken(t, i, j) == \A k \in i..j : t[k] \notin {",", "\n"}

\* the position of the first character of D in each token that holds one
FirstOf(t, D) ==
  {i \in 1..Len(t) : t[i] \in D /\ \A j \in 1..(i-1) : SameToken(t, j, i) => t[j] \notin D}

\* the k-th smallest element of a set of numbers
Kth(S, k) == CHOOSE x \in S : Cardinality({y \in S : y < x}) = k - 1

\* the characters of D in the token of t that position i lies in, from i on
DigitsFrom(t, i, D) ==
  LET last == CHOOSE j \in i..Len(t) :
                SameToken(t, i, j) /\ (j = Len(t) \/ t[j+1] \in {",", "\n"})
  IN SelectSeq(SubSeq(t, i, last), LAMBDA ch : ch \in D)

AllDigits == AsciiDigits \cup OtherDigits

\* C1 as stated: every returned token is made of decimal digits only and is
\* exactly 4 characters wide, and only tokens holding a decimal digit give an entry
C1_DecimalAndExactWidth ==
  Parsed =>
    /\ \A k \in 1..Len(inputs) :
         /\ Len(inputs[k]) = 4
         /\ \A i \in 1..Len(inputs[k]) : inputs[k][i] \in AsciiDigits
    /\ Len(inputs) = Cardinality(FirstOf(text, AsciiDigits))

\* C1 amended: every returned token is made only of characters str.isdigit
\* accepts, is at least 4 characters wide (4, or the number of such characters
\* in the token when that is more), and a token holding no such character gives
\* no entry
C1_DigitsAndMinWidth ==
  Parsed =>
    /\ Len(inputs) = Cardinality(FirstOf(text, AllDigits))
    /\ \A k \in 1..Len(inputs) :
         /\ \A i \in 1..Len(inputs[k]) : inputs[k][i] \in AllDigits
         /\ Len(inputs[k]) >= 4
         /\ Len(inputs[k]) =
              Max(4, Len(DigitsFrom(text, Kth(FirstOf(text, AllDigits), k), AllDigits)))

\* a token of 4 digits and a token wider than 4 in one text with blanks
C1_Witness ==
  /\ pc = "parsed"
  /\ \E k \in 1..Len(inputs) : Len(inputs[k]) > 4
  /\ \E k \in 1..Len(inputs) : Len(inputs[k]) = 4
  /\ \E i \in 1..Len(text) : text[i] = " "

\* C2 as stated: "2010, 05159\n4814" normalizes to ["2010", "5159", "4814"]
C2_ExampleAsStated ==
  (Parsed /\ text = ExampleText) =>
    inputs = << C2010, << "5", "1", "5", "9" >>, << "4", "8", "1", "4" >> >>

\* C2 amended: "2010, 05159\n4814" normalizes to ["2010", "05159", "4814"]
C2_Example ==
  (Parsed /\ text = ExampleText) =>
    inputs = << C2010, << "0", "5", "1", "5", "9" >>, << "4", "8", "1", "4" >> >>

C2_Witness == pc = "parsed" /\ text = ExampleText

\* C3: one code per comma- or newline-separated token that holds a digit, in
\* token order, each the token's digits left-padded with zeros, repeats kept
C3_OnePerTokenInOrder ==
  Parsed =>
    /\ Len(inputs) = Cardinality(FirstOf(text, AllDigits))
    /\ \A k \in 1..Len(inputs) :
         LET d == DigitsFrom(text, Kth(FirstOf(text, AllDigits), k), AllDigits)
         IN inputs[k] = Zeros(Max(0, 4 - Len(d))) \o d

\* the same code twice in the output, from a comma and a newline separator
C3_Witness ==
  /\ pc = "parsed"
  /\ \E i, j \in 1..Len(inputs) : i < j /\ inputs[i] = inputs[j]
  /\ \E i, j \in 1..Len(text) : text[i] = "," /\ text[j] = "\n"
  /\ \E i, j \in 1..Len(inputs) : inputs[i] # inputs[j]

\* ----------------------------------------- properties of the neighbour finder
Returned == pc \in {"found", "done", "KeyError"}

TableCodes == set(all_codes)

Abs(x) == IF x >= 0 THEN x ELSE -x

\* the table codes whose centroid is known and at most r from the centroid of p
Expected(p, r) ==
  {c \in TableCodes :
     centroid[p] # NaN /\ centroid[c] # NaN /\ Abs(centroid[p] - centroid[c]) <= r}

IsAscending(l) == \A i, j \in 1..Len(l) : i < j => LexLess(l[i], l[j])

\* a neighbours cell is empty or 4-character codes with ";" between them
WellFormedCell(cell) ==
  cell = << >> \/ (Len(cell) % 5 = 4 /\ \A k \in 1..(Len(cell) \div 5) : cell[5*k] = ";")

\* the codes of a well-formed neighbours cell, in order
CellCodes(cell) ==
  IF cell = << >> THEN << >>
  ELSE [k \in 1..((Len(cell) + 1) \div 5) |-> SubSeq(cell, 5*k - 4, 5*k - 1)]

Rows == results_df.rows

\* C4: an input code that is not in the table gets an empty neighbour list and
\* is listed as not found, the other inputs get their neighbours whatever the
\* position of the unknown code
C4_UnknownCodeHandled ==
  Returned =>
    /\ Len(Rows) = Len(inputs)
    /\ \A i \in 1..Len(inputs) :
         IF inputs[i] \notin TableCodes
         THEN /\ Rows[i].neighbours = << >>
              /\ results_map[inputs[i]] = << >>
              /\ inputs[i] \in set(missing_out)
         ELSE /\ WellFormedCell(Rows[i].neighbours)
              /\ set(CellCodes(Rows[i].neighbours)) = Expected(inputs[i], radius_km)
              /\ inputs[i] \notin set(missing_out)

\* an unknown code first, then a code of the table with a neighbour
C4_Witness ==
  /\ pc = "found"
  /\ Len(inputs) = 2
  /\ inputs[1] \notin TableCodes
  /\ inputs[2] \in TableCodes
  /\ Len(results_map[inputs[2]]) = 2

\* C5: every input code of the table is in its own neighbour list, for every
\* radius >= 0
C5_SelfIncluded ==
  Returned => \A p \in set(inputs) \cap TableCodes : p \in set(results_map[p])

C5_Witness ==
  /\ pc = "found"
  /\ radius_km = 0
  /\ \E p \in set(inputs) \cap TableCodes : results_map[p] = << p >>

\* C6: the neighbour list of an input code of the table is exactly the table
\* codes at a defined distance <= radius_km, without duplicates, ascending
C6_ExactlyWithinRadius ==
  Returned =>
    \A p \in set(inputs) \cap TableCodes :
      /\ set(results_map[p]) = Expected(p, radius_km)
      /\ IsAscending(results_map[p])
      /\ \A c \in TableCodes :
           distance(centroid, p, c) = NaN => c \notin set(results_map[p])

\* a neighbour exactly at the radius that has two rows in the table
C6_Witness ==
  /\ pc = "found"
  /\ radius_km > 0
  /\ \E p \in set(inputs) \cap TableCodes :
       \E c \in set(results_map[p]) :
         /\ Abs(centroid[p] - centroid[c]) = radius_km
         /\ \E i, j \in 1..Len(all_codes) : i < j /\ all_codes[i] = c /\ all_codes[j] = c

\* the table never holds a code whose distance to another table code is undefined
DistancesDefined ==
  \A p, c \in TableCodes : distance(centroid, p, c) # NaN

\* C7: the neighbours found at radius_km are among those found at any larger radius
C7_MonotoneInRadius ==
  Returned =>
    \A p \in set(inputs) \cap TableCodes :
      \A r2 \in (radius_km + 1)..(MaxRadius + 1) :
        set(results_map[p]) \subseteq set(neighbours_of(centroid, all_codes, p, r2))

\* a larger radius that adds a neighbour
C7_Witness ==
  /\ pc = "found"
  /\ \E p \in set(inputs) \cap TableCodes :
       \E r2 \in (radius_km + 1)..(MaxRadius + 1) :
         /\ results_map[p] # << >>
         /\ set(results_map[p]) # set(neighbours_of(centroid, all_codes, p, r2))

\* "2010, 2011, 9999"
ExampleCsv ==
  << "2", "0", "1", "0", ",", " ", "2", "0", "1", "1", ",", " ", "9", "9", "9", "9" >>

ExampleSets ==
  /\ Len(inputs) = 2
  /\ set(CellCodes(Rows[1].neighbours)) = {C2011, C2010}
  /\ set(CellCodes(Rows[2].neighbours)) = {C9999}

\* C8: the flattened list is the union of the rows' neighbour lists, each code
\* once, ascending, and the string is the codes with ", " between them;
\* the sets {"2011","2010"} and {"9999"} give "2010, 2011, 9999"
C8_FlattenedAggregate ==
  pc = "done" =>
    /\ set(items) = UNION {set(CellCodes(Rows[i].neighbours)) : i \in 1..Len(Rows)}
    /\ IsAscending(items)
    /\ Len(csv_str) = IF items = << >> THEN 0 ELSE 6 * Len(items) - 2
    /\ \A k \in 1..Len(items) :
         /\ SubSeq(csv_str, 6*k - 5, 6*k - 2) = items[k]
         /\ k < Len(items) => (csv_str[6*k - 1] = "," /\ csv_str[6*k] = " ")
    /\ ExampleSets => csv_str = ExampleCsv

C8_Witness == pc = "done" /\ ExampleSets /\ csv_str = ExampleCsv

\* C9 as stated: for empty inputs the finder followed by the flattening raises
\* no error and returns no rows, no not-found code and an empty flattened list
C9_EmptyInputsNoError ==
  inputs = << >> =>
    /\ pc # "KeyError"
    /\ Returned => (Rows = << >> /\ missing_out = << >>)
    /\ pc = "done" => (items = << >> /\ csv_str = << >>)

\* C10: one row per element of inputs, in order, each with its input code and
\* the neighbour list computed for it; equal inputs carry equal lists
C10_RowPerInput ==
  Returned =>
    /\ Len(Rows) = Len(inputs)
    /\ \A i \in 1..Len(inputs) :
         /\ Rows[i].input_postcode = inputs[i]
         /\ WellFormedCell(Rows[i].neighbours)
         /\ CellCodes(Rows[i].neighbours) = results_map[inputs[i]]
    /\ \A i, j \in 1..Len(inputs) :
         inputs[i] = inputs[j] => Rows[i].neighbours = Rows[j].neighbours

\* the same code of the table twice in inputs
C10_Witness ==
  /\ pc = "found"
  /\ Len(inputs) = 2
  /\ inputs[1] = inputs[2]
  /\ Len(results_map[inputs[1]]) >= 2

====
